---- MODULE Spec2Model ----
(***************************************************************************)
(* Model of the academic-talent assistant: utils.py (schema, heuristic     *)
(* extraction, provider adapter, the three LLM orchestrators) and the      *)
(* session handlers of app.py.                                             *)
(*                                                                         *)
(* Text is a sequence of one-character strings, so that the regular        *)
(* expressions of heuristic_extract are evaluated character by character.  *)
(* pydantic is taken with the v1 semantics the code relies on (it calls    *)
(* profile.json(indent=2)); backend replies carrying scalars that pydantic *)
(* would coerce between types are outside the modelled reply set.          *)
(***************************************************************************)
EXTENDS Integers, Sequences, FiniteSets, TLC

VARIABLES text, hashSeed, call, profiles, analysis

vars == <<text, hashSeed, call, profiles, analysis>>

(***************************************************************************)
(* Bounds of the model.                                                    *)
(***************************************************************************)
MaxFragments == 2
HashSeeds == 2

(***************************************************************************)
(* Characters and character classes of the re module (ASCII part).         *)
(***************************************************************************)
UpperSeq == <<"A","B","C","D","E","F","G","H","I","J","K","L","M",
              "N","O","P","Q","R","S","T","U","V","W","X","Y","Z">>
LowerSeq == <<"a","b","c","d","e","f","g","h","i","j","k","l","m",
              "n","o","p","q","r","s","t","u","v","w","x","y","z">>
DigitSeq == <<"0","1","2","3","4","5","6","7","8","9">>

Range(s) == {s[i] : i \in DOMAIN s}

UpperSet == Range(UpperSeq)
LowerSet == Range(LowerSeq)
DigitSet == Range(DigitSeq)
LetterSet == UpperSet \cup LowerSet
WordSet == LetterSet \cup DigitSet \cup {"_"}
SpaceSet == {" ", "\n", "\t"}

LowerMap == [c \in UpperSet |-> LowerSeq[CHOOSE i \in 1..26 : UpperSeq[i] = c]]

Fold(c) == IF c \in UpperSet THEN LowerMap[c] ELSE c

CharCode == [c \in WordSet |->
               IF c \in UpperSet THEN CHOOSE i \in 1..26 : UpperSeq[i] = c
               ELSE IF c \in LowerSet THEN 26 + (CHOOSE i \in 1..26 : LowerSeq[i] = c)
               ELSE IF c \in DigitSet THEN 52 + (CHOOSE i \in 1..10 : DigitSeq[i] = c)
               ELSE 63]

(***************************************************************************)
(* re.search(pattern, s, re.IGNORECASE) for a literal pattern: the start   *)
(* of the leftmost match, 0 when there is none.                            *)
(***************************************************************************)
LiteralAtCI(pat, s, i) ==
    /\ i + Len(pat) - 1 <= Len(s)
    /\ \A k \in 1..Len(pat) : Fold(s[i + k - 1]) = Fold(pat[k])

RECURSIVE SearchFromCI(_, _, _)
SearchFromCI(pat, s, i) ==
    IF i + Len(pat) - 1 > Len(s) THEN 0
    ELSE IF LiteralAtCI(pat, s, i) THEN i
    ELSE SearchFromCI(pat, s, i + 1)

re_search_literal(pat, s) == SearchFromCI(pat, s, 1)

(***************************************************************************)
(* Greedy run of characters of a class starting at position i: its length. *)
(***************************************************************************)
RECURSIVE RunLen(_, _, _)
RunLen(class, s, i) ==
    IF i <= Len(s) /\ s[i] \in class THEN 1 + RunLen(class, s, i + 1) ELSE 0

(***************************************************************************)
(* r"H-?Index[:\s]+(\d+)" with re.IGNORECASE, tried at position i.         *)
(* Result: the captured digit run, or <<>> when the pattern fails at i     *)
(* (\d+ never captures the empty string).                                  *)
(***************************************************************************)
HIndexAt(s, i) ==
    LET afterH == i + 1
        afterDash == IF afterH <= Len(s) /\ s[afterH] = "-" THEN afterH + 1 ELSE afterH
        afterIndex == afterDash + 5
        seps == RunLen({":"} \cup SpaceSet, s, afterIndex)
        digits == RunLen(DigitSet, s, afterIndex + seps)
    IN  IF /\ i <= Len(s)
           /\ Fold(s[i]) = "h"
           /\ LiteralAtCI(<<"I","n","d","e","x">>, s, afterDash)
           /\ seps >= 1
           /\ digits >= 1
        THEN SubSeq(s, afterIndex + seps, afterIndex + seps + digits - 1)
        ELSE <<>>

RECURSIVE HIndexSearchFrom(_, _)
HIndexSearchFrom(s, i) ==
    IF i > Len(s) THEN <<>>
    ELSE IF HIndexAt(s, i) # <<>> THEN HIndexAt(s, i)
    ELSE HIndexSearchFrom(s, i + 1)

(***************************************************************************)
(* Optional values: None, or Some(v).                                      *)
(***************************************************************************)
None == [some |-> FALSE]
Some(v) == [some |-> TRUE, v |-> v]

h_index_match(s) ==
    LET g == HIndexSearchFrom(s, 1) IN IF g = <<>> THEN None ELSE Some(g)

(***************************************************************************)
(* re.findall(r"\b[A-Z][a-zA-Z]{3,}\b", s): the non-overlapping matches,   *)
(* scanning left to right.                                                 *)
(***************************************************************************)
IsWordChar(s, i) == i >= 1 /\ i <= Len(s) /\ s[i] \in WordSet

Boundary(s, i) == IsWordChar(s, i - 1) # IsWordChar(s, i)

CapWordAt(s, i) ==
    LET n == RunLen(LetterSet, s, i + 1)
    IN  IF /\ i <= Len(s)
           /\ Boundary(s, i)
           /\ s[i] \in UpperSet
           /\ n >= 3
           /\ Boundary(s, i + 1 + n)
        THEN 1 + n
        ELSE 0

RECURSIVE FindAllFrom(_, _)
FindAllFrom(s, i) ==
    IF i > Len(s) THEN <<>>
    ELSE LET n == CapWordAt(s, i)
         IN  IF n > 0 THEN <<SubSeq(s, i, i + n - 1)>> \o FindAllFrom(s, i + n)
             ELSE FindAllFrom(s, i + 1)

re_findall_capwords(s) == FindAllFrom(s, 1)

(***************************************************************************)
(* list({...}): iteration order of a set of strings.  The order is fixed   *)
(* by the string hashes, which depend on the per-process hash seed, with   *)
(* colliding entries kept in insertion order.                              *)
(***************************************************************************)
HashMod == 31

RECURSIVE StrHash(_, _, _)
StrHash(w, i, h) ==
    IF i > Len(w) THEN h
    ELSE StrHash(w, i + 1, (h * 7 + CharCode[w[i]]) % HashMod)

RECURSIVE Dedupe(_, _)
Dedupe(ws, seen) ==
    IF ws = <<>> THEN <<>>
    ELSE IF Head(ws) \in seen THEN Dedupe(Tail(ws), seen)
    ELSE <<Head(ws)>> \o Dedupe(Tail(ws), seen \cup {Head(ws)})

RECURSIVE InsertByHash(_, _, _)
InsertByHash(w, sorted, seed) ==
    IF sorted = <<>> THEN <<w>>
    ELSE IF StrHash(w, 1, seed) < StrHash(Head(sorted), 1, seed)
         THEN <<w>> \o sorted
         ELSE <<Head(sorted)>> \o InsertByHash(w, Tail(sorted), seed)

RECURSIVE SetOrder(_, _)
SetOrder(ws, seed) ==
    IF ws = <<>> THEN <<>>
    ELSE InsertByHash(ws[Len(ws)], SetOrder(SubSeq(ws, 1, Len(ws) - 1), seed), seed)

Take(s, n) == SubSeq(s, 1, IF Len(s) < n THEN Len(s) ELSE n)

(***************************************************************************)
(* keywords: the distinct matches (word.strip() leaves a match of letters  *)
(* unchanged), in set order, cut to the first 10.                          *)
(***************************************************************************)
KeywordLimit == 10

keywords_of_untruncated(s, seed) ==
    SetOrder(Dedupe(re_findall_capwords(s), {}), seed)

keywords_of(s, seed) ==
    Take(SetOrder(Dedupe(re_findall_capwords(s), {}), seed), KeywordLimit)

(***************************************************************************)
(* Schema: Publication, Grant, CVProfile with their field defaults.        *)
(***************************************************************************)
Publication(title, journal, year) ==
    [title |-> title, journal |-> journal, year |-> year]

Grant(title, amount, year, sponsor) ==
    [title |-> title, amount |-> amount, year |-> year, sponsor |-> sponsor]

CVProfileDefaults ==
    [name |-> "Unknown",
     current_institution |-> "N/A",
     estimated_ranking |-> "N/A",
     h_index |-> None,
     research_focus_keywords |-> <<>>,
     key_publications |-> <<>>,
     grants |-> <<>>,
     notes |-> <<>>]

PublicationDefaults == Publication("N/A", "N/A", None)

GrantDefaults == Grant("N/A", None, None, None)

(***************************************************************************)
(* heuristic_extract.  A str is modelled as a sequence of characters where *)
(* the code scans it (text, keywords, h_index) and as a sequence of text   *)
(* segments where the code only concatenates it (notes).                   *)
(***************************************************************************)
JournalList == <<"Nature", "Science", "Cell", "Lancet">>

JournalChars ==
    [Nature |-> <<"N","a","t","u","r","e">>,
     Science |-> <<"S","c","i","e","n","c","e">>,
     Cell |-> <<"C","e","l","l">>,
     Lancet |-> <<"L","a","n","c","e","t">>]

HeuristicNote == "Heuristic extraction; refine with LLM for richer details."

LiteralAt(pat, s, i) ==
    /\ i + Len(pat) - 1 <= Len(s)
    /\ \A k \in 1..Len(pat) : s[i + k - 1] = pat[k]

RECURSIVE publications_from_case_sensitive(_, _)
publications_from_case_sensitive(s, k) ==
    IF k > Len(JournalList) THEN <<>>
    ELSE LET journal == JournalList[k]
         IN  (IF \E i \in 1..Len(s) : LiteralAt(JournalChars[journal], s, i)
              THEN <<Publication("Highlight from " \o journal, journal, None)>>
              ELSE <<>>) \o publications_from_case_sensitive(s, k + 1)

RECURSIVE publications_from(_, _)
publications_from(s, k) ==
    IF k > Len(JournalList) THEN <<>>
    ELSE LET journal == JournalList[k]
         IN  (IF re_search_literal(JournalChars[journal], s) # 0
              THEN <<Publication("Highlight from " \o journal, journal, None)>>
              ELSE <<>>) \o publications_from(s, k + 1)

heuristic_extract(s) ==
    [CVProfileDefaults EXCEPT
        !.h_index = h_index_match(s),
        !.research_focus_keywords = keywords_of(s, hashSeed),
        !.key_publications = publications_from(s, 1),
        !.notes = <<HeuristicNote>>]

(***************************************************************************)
(* Input texts: concatenations of at most MaxFragments fragments.          *)
(***************************************************************************)
Fragments ==
    {<<"N","a","t","u","r","e"," ","C","e","l","l"," ","G","e","n","e"," ","D","r","u","g"," ","B","o","n","e"," ","L","u","n","g"," ">>,
     <<"S","C","I","E","N","C","E"," ","L","a","n","c","e","t"," ","M","i","c","e"," ","D","a","t","a"," ","T","w","i","n"," ","Y","a","l","e"," ">>,
     <<"h","-","i","n","d","e","x",":"," ","3","7"," ">>,
     <<"H","I","n","d","e","x"," ","4">>,
     <<"c","e","l","l">>,
     <<"2">>,
     <<"P","r","o">>,
     <<"G","e","n","e"," ">>}

RECURSIVE TextsOfLen(_)
TextsOfLen(n) ==
    IF n = 0 THEN {<<>>}
    ELSE {t \o f : t \in TextsOfLen(n - 1), f \in Fragments}

Texts == UNION {TextsOfLen(n) : n \in 0..MaxFragments}

(***************************************************************************)
(* JSON values as json.loads returns them, tagged by their Python type.    *)
(***************************************************************************)
JNull == [t |-> "null"]
JStr(s) == [t |-> "str", v |-> s]
JInt(n) == [t |-> "int", v |-> n]
JList(items) == [t |-> "list", v |-> items]
JObj(fields) == [t |-> "obj", v |-> fields]

(***************************************************************************)
(* Backend replies (response.content) used as inputs.                      *)
(***************************************************************************)
ReplyNotJson == "Not JSON"
ReplyEmpty == ""
ReplyProse == "Dear Dr. Zhang, we admire your Nature paper."
ReplyTruncated == "{\"name\": \"Dr. Lin\", \"h_index\": "
ReplyNumber == "42"
ReplyArray == "[1, 2]"
ReplyEmptyObject == "{}"
ReplyPubsString == "{\"name\": \"Dr. Lin\", \"key_publications\": \"Nature 2020\"}"
ReplyNullName == "{\"name\": null}"
ReplyNullPub == "{\"key_publications\": [null]}"
ReplyPartial == "{\"name\": \"Dr. Lin\", \"h_index\": \"12\", \"research_focus_keywords\": [\"Gene\"], \"key_publications\": [{\"title\": \"Atlas\", \"journal\": \"Cell\", \"year\": 2020}, {\"journal\": \"Nature\"}], \"grants\": [{\"title\": \"ERC\"}]}"
ReplyFull == "{\"name\": \"Dr. Sato\", \"current_institution\": \"Kyoto\", \"estimated_ranking\": \"Top 50\", \"h_index\": null, \"research_focus_keywords\": [], \"key_publications\": [], \"grants\": [{\"title\": \"JSPS\", \"amount\": \"$1M\", \"year\": 2022, \"sponsor\": null}], \"notes\": \"From LLM\"}"
ReplyReport == "{\"suitability_score\": 85, \"reasoning\": \"Strong fit\", \"strengths\": [\"Immunology\"], \"gaps\": [], \"recommended_projects\": []}"

Replies ==
    {ReplyNotJson, ReplyEmpty, ReplyProse, ReplyTruncated, ReplyNumber, ReplyArray,
     ReplyEmptyObject, ReplyPubsString, ReplyNullName, ReplyNullPub, ReplyPartial,
     ReplyFull, ReplyReport}

(***************************************************************************)
(* json.loads on the replies above: [ok |-> FALSE] stands for              *)
(* json.JSONDecodeError.                                                   *)
(***************************************************************************)
DecodeError == [ok |-> FALSE]
Decoded(v) == [ok |-> TRUE, value |-> v]

json_loads(content) ==
    CASE content = ReplyNumber -> Decoded(JInt(42))
      [] content = ReplyArray -> Decoded(JList(<<JInt(1), JInt(2)>>))
      [] content = ReplyEmptyObject -> Decoded(JObj(<<>>))
      [] content = ReplyPubsString ->
            Decoded(JObj([name |-> JStr("Dr. Lin"), key_publications |-> JStr("Nature 2020")]))
      [] content = ReplyNullName -> Decoded(JObj([name |-> JNull]))
      [] content = ReplyNullPub -> Decoded(JObj([key_publications |-> JList(<<JNull>>)]))
      [] content = ReplyPartial ->
            Decoded(JObj([name |-> JStr("Dr. Lin"),
                          h_index |-> JStr(<<"1","2">>),
                          research_focus_keywords |-> JList(<<JStr(<<"G","e","n","e">>)>>),
                          key_publications |->
                              JList(<<JObj([title |-> JStr("Atlas"), journal |-> JStr("Cell"),
                                            year |-> JInt(2020)]),
                                      JObj([journal |-> JStr("Nature")])>>),
                          grants |-> JList(<<JObj([title |-> JStr("ERC")])>>)]))
      [] content = ReplyFull ->
            Decoded(JObj([name |-> JStr("Dr. Sato"),
                          current_institution |-> JStr("Kyoto"),
                          estimated_ranking |-> JStr("Top 50"),
                          h_index |-> JNull,
                          research_focus_keywords |-> JList(<<>>),
                          key_publications |-> JList(<<>>),
                          grants |-> JList(<<JObj([title |-> JStr("JSPS"), amount |-> JStr("$1M"),
                                                   year |-> JInt(2022), sponsor |-> JNull])>>),
                          notes |-> JStr("From LLM")]))
      [] content = ReplyReport ->
            Decoded(JObj([suitability_score |-> JInt(85),
                          reasoning |-> JStr("Strong fit"),
                          strengths |-> JList(<<JStr("Immunology")>>),
                          gaps |-> JList(<<>>),
                          recommended_projects |-> JList(<<>>)]))
      [] OTHER -> DecodeError

(***************************************************************************)
(* pydantic validation of the schema classes.  A field that is absent      *)
(* takes its default; unknown keys are ignored.                            *)
(***************************************************************************)
Has(obj, key) == key \in DOMAIN obj.v

IsStr(v) == v.t = "str"
IsOptStr(v) == v.t \in {"str", "null"}
IsOptInt(v) == v.t \in {"int", "null"}

FieldIsStr(obj, key) == Has(obj, key) => IsStr(obj.v[key])
FieldIsOptStr(obj, key) == Has(obj, key) => IsOptStr(obj.v[key])
FieldIsOptInt(obj, key) == Has(obj, key) => IsOptInt(obj.v[key])

ToOptional(v) == IF v.t = "null" THEN None ELSE Some(v.v)

StrField(obj, key, default) == IF Has(obj, key) THEN obj.v[key].v ELSE default
OptField(obj, key) == IF Has(obj, key) THEN ToOptional(obj.v[key]) ELSE None

PublicationValid(v) ==
    /\ v.t = "obj"
    /\ FieldIsStr(v, "title")
    /\ FieldIsStr(v, "journal")
    /\ FieldIsOptInt(v, "year")

PublicationOf(v) ==
    Publication(StrField(v, "title", PublicationDefaults.title),
                StrField(v, "journal", PublicationDefaults.journal),
                OptField(v, "year"))

GrantValid(v) ==
    /\ v.t = "obj"
    /\ FieldIsStr(v, "title")
    /\ FieldIsOptStr(v, "amount")
    /\ FieldIsOptInt(v, "year")
    /\ FieldIsOptStr(v, "sponsor")

GrantOf(v) ==
    Grant(StrField(v, "title", GrantDefaults.title),
          OptField(v, "amount"),
          OptField(v, "year"),
          OptField(v, "sponsor"))

IsStrList(v) == v.t = "list" /\ \A i \in DOMAIN v.v : IsStr(v.v[i])
IsPublicationList(v) == v.t = "list" /\ \A i \in DOMAIN v.v : PublicationValid(v.v[i])
IsGrantList(v) == v.t = "list" /\ \A i \in DOMAIN v.v : GrantValid(v.v[i])

FieldIsStrList(obj, key) == Has(obj, key) => IsStrList(obj.v[key])
FieldIsPublicationList(obj, key) == Has(obj, key) => IsPublicationList(obj.v[key])
FieldIsGrantList(obj, key) == Has(obj, key) => IsGrantList(obj.v[key])

CVProfileValid_notes_required(parsed) ==
    /\ parsed.t = "obj"
    /\ FieldIsStr(parsed, "name")
    /\ FieldIsStr(parsed, "current_institution")
    /\ FieldIsStr(parsed, "estimated_ranking")
    /\ FieldIsOptStr(parsed, "h_index")
    /\ FieldIsStrList(parsed, "research_focus_keywords")
    /\ FieldIsPublicationList(parsed, "key_publications")
    /\ FieldIsGrantList(parsed, "grants")
    /\ Has(parsed, "notes") /\ IsStr(parsed.v["notes"])

CVProfileValid(parsed) ==
    /\ parsed.t = "obj"
    /\ FieldIsStr(parsed, "name")
    /\ FieldIsStr(parsed, "current_institution")
    /\ FieldIsStr(parsed, "estimated_ranking")
    /\ FieldIsOptStr(parsed, "h_index")
    /\ FieldIsStrList(parsed, "research_focus_keywords")
    /\ FieldIsPublicationList(parsed, "key_publications")
    /\ FieldIsGrantList(parsed, "grants")
    /\ FieldIsStr(parsed, "notes")

Segments(s) == IF s = "" THEN <<>> ELSE <<s>>

CVProfile(parsed) ==
    [name |-> StrField(parsed, "name", CVProfileDefaults.name),
     current_institution |->
         StrField(parsed, "current_institution", CVProfileDefaults.current_institution),
     estimated_ranking |->
         StrField(parsed, "estimated_ranking", CVProfileDefaults.estimated_ranking),
     h_index |-> OptField(parsed, "h_index"),
     research_focus_keywords |->
         IF Has(parsed, "research_focus_keywords")
         THEN [i \in DOMAIN parsed.v["research_focus_keywords"].v |->
                   parsed.v["research_focus_keywords"].v[i].v]
         ELSE CVProfileDefaults.research_focus_keywords,
     key_publications |->
         IF Has(parsed, "key_publications")
         THEN [i \in DOMAIN parsed.v["key_publications"].v |->
                   PublicationOf(parsed.v["key_publications"].v[i])]
         ELSE CVProfileDefaults.key_publications,
     grants |->
         IF Has(parsed, "grants")
         THEN [i \in DOMAIN parsed.v["grants"].v |-> GrantOf(parsed.v["grants"].v[i])]
         ELSE CVProfileDefaults.grants,
     notes |->
         IF Has(parsed, "notes") THEN Segments(parsed.v["notes"].v)
         ELSE CVProfileDefaults.notes]

(***************************************************************************)
(* ModelConfig and get_llm.                                                *)
(***************************************************************************)
ModelConfig(provider, model, api_key) ==
    [provider |-> provider, model |-> model, api_key |-> api_key]

Configs ==
    {ModelConfig("openai", "gpt-4o-mini", "sk-test"),
     ModelConfig("anthropic", "claude-3-5-sonnet-20240620", "sk-test"),
     ModelConfig("unsupported-vendor", "some-model", "sk-test")}

get_llm_default_openai(config) ==
    IF config.provider = "anthropic"
    THEN [ok |-> TRUE, client |-> "ChatAnthropic", model |-> config.model]
    ELSE [ok |-> TRUE, client |-> "ChatOpenAI", model |-> config.model]

get_llm(config) ==
    IF config.provider = "openai"
    THEN [ok |-> TRUE, client |-> "ChatOpenAI", model |-> config.model]
    ELSE IF config.provider = "anthropic"
    THEN [ok |-> TRUE, client |-> "ChatAnthropic", model |-> config.model]
    ELSE [ok |-> FALSE, error |-> "ValueError"]

(***************************************************************************)
(* The backend behind llm.invoke: it either returns a reply or raises.     *)
(***************************************************************************)
UpstreamFailure == [kind |-> "error"]
ReplyOf(content) == [kind |-> "reply", content |-> content]

Outcomes == {UpstreamFailure} \cup {ReplyOf(c) : c \in Replies}

(***************************************************************************)
(* Result of one call of a function of utils.py: the value it returns or   *)
(* the exception it raises, with the number of llm.invoke calls it made.   *)
(***************************************************************************)
NoValue == [none |-> TRUE]

Returned(value, invocations) ==
    [raised |-> "none", result |-> value, invocations |-> invocations]

Raised(error, invocations) ==
    [raised |-> error, result |-> NoValue, invocations |-> invocations]

FallbackNote == " | LLM parsing failed to return valid JSON."

llm_structured_parse_overwrite_notes(s, config, outcome) ==
    LET llm == get_llm(config)
        parsed == json_loads(outcome.content)
        base == heuristic_extract(s)
    IN  IF ~llm.ok THEN Raised(llm.error, 0)
        ELSE IF outcome.kind = "error" THEN Raised("UpstreamError", 1)
        ELSE IF parsed.ok /\ CVProfileValid(parsed.value)
        THEN Returned(CVProfile(parsed.value), 1)
        ELSE Returned([base EXCEPT !.notes = <<FallbackNote>>], 1)

llm_structured_parse_retry(s, config, outcome) ==
    LET llm == get_llm(config)
        parsed == json_loads(outcome.content)
        base == heuristic_extract(s)
    IN  IF ~llm.ok THEN Raised(llm.error, 0)
        ELSE IF outcome.kind = "error" THEN Raised("UpstreamError", 1)
        ELSE IF parsed.ok /\ CVProfileValid(parsed.value)
        THEN Returned(CVProfile(parsed.value), 1)
        ELSE Returned([base EXCEPT !.notes = @ \o <<FallbackNote>>], 2)

llm_structured_parse(s, config, outcome) ==
    LET llm == get_llm(config)
        parsed == json_loads(outcome.content)
        base == heuristic_extract(s)
    IN  IF ~llm.ok THEN Raised(llm.error, 0)
        ELSE IF outcome.kind = "error" THEN Raised("UpstreamError", 1)
        ELSE IF parsed.ok /\ CVProfileValid(parsed.value)
        THEN Returned(CVProfile(parsed.value), 1)
        ELSE Returned([base EXCEPT !.notes = @ \o <<FallbackNote>>], 1)

DegradedReport_drop_reply(content) ==
    JObj([suitability_score |-> JStr("N/A"),
          reasoning |-> JStr(""),
          strengths |-> JList(<<>>),
          gaps |-> JList(<<>>),
          recommended_projects |-> JList(<<>>)])

DegradedReport(content) ==
    JObj([suitability_score |-> JStr("N/A"),
          reasoning |-> JStr(content),
          strengths |-> JList(<<>>),
          gaps |-> JList(<<>>),
          recommended_projects |-> JList(<<>>)])

generate_match_report(profile, target, config, outcome) ==
    LET llm == get_llm(config)
        parsed == json_loads(outcome.content)
    IN  IF ~llm.ok THEN Raised(llm.error, 0)
        ELSE IF outcome.kind = "error" THEN Raised("UpstreamError", 1)
        ELSE IF parsed.ok THEN Returned(parsed.value, 1)
        ELSE Returned(DegradedReport(outcome.content), 1)

generate_outreach(profile, institute_value, language, config, outcome) ==
    LET llm == get_llm(config)
    IN  IF ~llm.ok THEN Raised(llm.error, 0)
        ELSE IF outcome.kind = "error" THEN Raised("UpstreamError", 1)
        ELSE Returned(outcome.content, 1)

(***************************************************************************)
(* demo_profile.  The notes literal of the source is Chinese text; it is   *)
(* rendered here in ASCII.                                                 *)
(***************************************************************************)
demo_profile ==
    [name |-> "Dr. Ada Zhang",
     current_institution |-> "Tsinghua University",
     estimated_ranking |-> "Top 20 globally",
     h_index |-> Some(<<"4","2">>),
     research_focus_keywords |->
         <<<<"I","m","m","u","n","o","l","o","g","y">>, <<"T"," ","c","e","l","l">>, <<"T","u","m","o","r"," ","m","i","c","r","o","e","n","v","i","r","o","n","m","e","n","t">>, <<"S","i","n","g","l","e","-","c","e","l","l">>>>,
     key_publications |->
         <<Publication("Checkpoint modulation in solid tumors", "Nature", Some(2023)),
           Publication("Single-cell atlas of immune niches", "Science", Some(2022))>>,
     grants |->
         <<Grant("NSFC Excellent Young Scientist", Some("$500K"), Some(2021), Some("NSFC")),
           Grant("Translational immunotherapy consortium", Some("$1.2M"), Some(2023),
                 Some("Industry"))>>,
     notes |-> <<"demo data: ready for matching and outreach.">>]

(***************************************************************************)
(* load_pdf_text: the page texts joined by newlines and stripped, or       *)
(* ValueError when the reader fails.                                       *)
(***************************************************************************)
RECURSIVE LStrip(_)
LStrip(s) == IF s # <<>> /\ Head(s) \in SpaceSet THEN LStrip(Tail(s)) ELSE s

RECURSIVE RStrip(_)
RStrip(s) ==
    IF s # <<>> /\ s[Len(s)] \in SpaceSet THEN RStrip(SubSeq(s, 1, Len(s) - 1)) ELSE s

Strip(s) == RStrip(LStrip(s))

RECURSIVE Join(_, _)
Join(sep, parts) ==
    IF parts = <<>> THEN <<>>
    ELSE IF Len(parts) = 1 THEN parts[1]
    ELSE parts[1] \o sep \o Join(sep, Tail(parts))

load_pdf_text(file) ==
    IF file.readable THEN Returned(Strip(Join(<<"\n">>, file.pages)), 0)
    ELSE Raised("ValueError", 0)

(***************************************************************************)
(* Calls of the functions of utils.py on the input text.  Each behaviour   *)
(* makes one call; call records the function, its arguments' relevant      *)
(* parts and its outcome.                                                  *)
(***************************************************************************)
NoCall == [op |-> "none"]

CallOf(op, config, outcome, res) ==
    [op |-> op, config |-> config, backend |-> outcome,
     raised |-> res.raised, result |-> res.result, invocations |-> res.invocations]

Init ==
    /\ text \in Texts
    /\ hashSeed \in 1..HashSeeds
    /\ call = NoCall
    /\ profiles = <<>>
    /\ analysis = <<>>

CallHeuristicExtract ==
    /\ call = NoCall
    /\ call' = [op |-> "heuristic_extract", raised |-> "none",
                result |-> heuristic_extract(text), invocations |-> 0]
    /\ UNCHANGED <<text, hashSeed, profiles, analysis>>

CallGetLlm ==
    /\ call = NoCall
    /\ \E config \in Configs :
          call' = [op |-> "get_llm", config |-> config,
                   raised |-> IF get_llm(config).ok THEN "none" ELSE get_llm(config).error,
                   result |-> IF get_llm(config).ok THEN get_llm(config) ELSE NoValue,
                   invocations |-> 0]
    /\ UNCHANGED <<text, hashSeed, profiles, analysis>>

CallLlmStructuredParse ==
    /\ call = NoCall
    /\ \E config \in Configs, outcome \in Outcomes :
          call' = CallOf("llm_structured_parse", config, outcome,
                         llm_structured_parse(text, config, outcome))
    /\ UNCHANGED <<text, hashSeed, profiles, analysis>>

Targets == {"Immunology with focus on tumor microenvironment"}
InstituteValues == {"World-class translational medicine platforms"}
Languages == {"English", "Chinese"}

CallGenerateMatchReport ==
    /\ call = NoCall
    /\ \E profile \in {demo_profile, heuristic_extract(text)}, target \in Targets,
          config \in Configs, outcome \in Outcomes :
          call' = CallOf("generate_match_report", config, outcome,
                         generate_match_report(profile, target, config, outcome))
    /\ UNCHANGED <<text, hashSeed, profiles, analysis>>

CallGenerateOutreach ==
    /\ call = NoCall
    /\ \E profile \in {demo_profile, heuristic_extract(text)}, value \in InstituteValues,
          language \in Languages, config \in Configs, outcome \in Outcomes :
          call' = CallOf("generate_outreach", config, outcome,
                         generate_outreach(profile, value, language, config, outcome))
    /\ UNCHANGED <<text, hashSeed, profiles, analysis>>

Next ==
    \/ CallHeuristicExtract
    \/ CallGetLlm
    \/ CallLlmStructuredParse
    \/ CallGenerateMatchReport
    \/ CallGenerateOutreach

Spec == Init /\ [][Next]_vars

(***************************************************************************)
(* app.py: the session state (st.session_state["profiles"] and             *)
(* ["analysis"]) and the four button handlers.  Widget values are inputs   *)
(* of the handlers.  In this specification call records the handler that   *)
(* ran last: the message it showed, the exception that escaped it and the  *)
(* result of the utils.py function it called.                              *)
(***************************************************************************)
NoFile == [present |-> FALSE]
PdfFile(pages) == [present |-> TRUE, readable |-> TRUE, pages |-> pages]
BrokenPdf == [present |-> TRUE, readable |-> FALSE, pages |-> <<>>]

Uploads ==
    {NoFile, BrokenPdf,
     PdfFile(<<<<"\n","H","-","I","n","d","e","x",":"," ","7"," ">>,
               <<"C","e","l","l","\n">>>>)}

CandidateNames == {"", "Alice"}
Providers == {"openai", "anthropic"}
ApiKeys == {"", "sk-test"}
ModelNameFor(provider) ==
    IF provider = "openai" THEN "gpt-4o-mini" ELSE "claude-3-5-sonnet-20240620"

TargetDirections ==
    {<<>>, <<" ", "\n">>, <<"I","m","m","u","n","o","l","o","g","y">>}

ParseOutcomes == {UpstreamFailure, ReplyOf(ReplyNotJson), ReplyOf(ReplyPartial)}

AnalysisOutcomes == {UpstreamFailure, ReplyOf(ReplyNotJson)}

OutreachOutcomes == {UpstreamFailure, ReplyOf(ReplyProse)}

add_profile_replace_map(name, profile) == [n \in {name} |-> profile]

add_profile(name, profile) ==
    [n \in DOMAIN profiles \cup {name} |-> IF n = name THEN profile ELSE profiles[n]]

NotInvoked == [kind |-> "none"]

Handled(op, outcome, message, raised) ==
    [op |-> op, backend |-> outcome, message |-> message, raised |-> raised]

InitApp ==
    /\ text = <<>>
    /\ hashSeed = 1
    /\ call = NoCall
    /\ profiles = <<>>
    /\ analysis = <<>>

ParseCV ==
    \E uploaded \in Uploads, use_llm \in BOOLEAN, api_key \in ApiKeys :
       /\ UNCHANGED <<text, hashSeed, analysis>>
       /\ IF ~uploaded.present
          THEN /\ call' = Handled("ParseCV", NotInvoked,
                                  "Please upload a PDF file first.", "none")
               /\ UNCHANGED profiles
          ELSE IF use_llm /\ api_key = ""
          THEN /\ call' = Handled("ParseCV", NotInvoked,
                                  "Provide an API key or disable LLM parsing.", "none")
               /\ UNCHANGED profiles
          ELSE LET loaded == load_pdf_text(uploaded)
                   raw_text == loaded.result
               IN  IF loaded.raised # "none"
                   THEN /\ call' = Handled("ParseCV", NotInvoked, "", loaded.raised)
                        /\ UNCHANGED profiles
                   ELSE \E candidate_name \in CandidateNames, provider \in Providers,
                           outcome \in IF use_llm /\ api_key # "" THEN ParseOutcomes
                                       ELSE {NotInvoked} :
                           LET config == ModelConfig(provider, ModelNameFor(provider), api_key)
                               parsed == IF use_llm /\ api_key # ""
                                         THEN llm_structured_parse(raw_text, config, outcome)
                                         ELSE Returned(heuristic_extract(raw_text), 0)
                               profile == IF candidate_name # ""
                                          THEN [parsed.result EXCEPT !.name = candidate_name]
                                          ELSE parsed.result
                           IN  IF parsed.raised # "none"
                               THEN /\ call' = Handled("ParseCV", outcome, "", parsed.raised)
                                    /\ UNCHANGED profiles
                               ELSE /\ call' = Handled("ParseCV", outcome,
                                                       "Parsed profile saved", "none")
                                    /\ profiles' = add_profile(profile.name, profile)

LoadDemoProfile ==
    /\ profiles' = add_profile(demo_profile.name, demo_profile)
    /\ call' = Handled("LoadDemoProfile", NotInvoked, "Demo profile added.", "none")
    /\ UNCHANGED <<text, hashSeed, analysis>>

GenerateAnalysis ==
    /\ DOMAIN profiles # {}
    /\ \E selected \in DOMAIN profiles, target_direction \in TargetDirections,
          api_key \in ApiKeys :
          /\ UNCHANGED <<text, hashSeed, profiles>>
          /\ IF api_key = ""
             THEN /\ call' = Handled("GenerateAnalysis", NotInvoked,
                                     "API key required for LLM analysis.", "none")
                  /\ UNCHANGED analysis
             ELSE IF Strip(target_direction) = <<>>
             THEN /\ call' = Handled("GenerateAnalysis", NotInvoked,
                                     "Please enter a target research direction.", "none")
                  /\ UNCHANGED analysis
             ELSE \E provider \in Providers, outcome \in AnalysisOutcomes :
                     LET config == ModelConfig(provider, ModelNameFor(provider), api_key)
                         profile == profiles[selected]
                         report == generate_match_report(profile, target_direction,
                                                         config, outcome)
                     IN  IF report.raised # "none"
                         THEN /\ call' = Handled("GenerateAnalysis", outcome, "",
                                                 report.raised)
                              /\ UNCHANGED analysis
                         ELSE /\ call' = Handled("GenerateAnalysis", outcome,
                                                 "Analysis ready", "none")
                              /\ analysis' =
                                    [n \in DOMAIN analysis \cup {selected} |->
                                        IF n = selected THEN report.result ELSE analysis[n]]

GenerateOutreachEmail ==
    /\ DOMAIN analysis # {}
    /\ \E selected \in DOMAIN analysis, api_key \in ApiKeys :
          /\ UNCHANGED <<text, hashSeed, profiles, analysis>>
          /\ IF api_key = ""
             THEN call' = Handled("GenerateOutreachEmail", NotInvoked,
                                  "API key required for outreach generation.", "none")
             ELSE IF selected \notin DOMAIN profiles
             THEN call' = Handled("GenerateOutreachEmail", NotInvoked,
                                  "Profile missing. Please rerun analysis.", "none")
             ELSE \E institute_value \in InstituteValues, language \in Languages,
                     provider \in Providers, outcome \in OutreachOutcomes :
                     LET config == ModelConfig(provider, ModelNameFor(provider), api_key)
                         email == generate_outreach(profiles[selected], institute_value,
                                                    language, config, outcome)
                     IN  IF email.raised # "none"
                         THEN call' = Handled("GenerateOutreachEmail", outcome, "",
                                              email.raised)
                         ELSE call' = Handled("GenerateOutreachEmail", outcome,
                                              "Draft ready", "none")

NextApp ==
    \/ ParseCV
    \/ LoadDemoProfile
    \/ GenerateAnalysis
    \/ GenerateOutreachEmail

SpecApp == InitApp /\ [][NextApp]_vars

(***************************************************************************)
(* Properties.                                                             *)
(***************************************************************************)
SupportedProviders == {"openai", "anthropic"}

InvalidJsonReplies == {ReplyNotJson, ReplyEmpty, ReplyProse, ReplyTruncated}

SchemaViolatingReplies ==
    {ReplyNumber, ReplyArray, ReplyPubsString, ReplyNullName, ReplyNullPub}

SchemaMatchingReplies == {ReplyEmptyObject, ReplyPartial, ReplyFull}

ProfileFields ==
    {"name", "current_institution", "estimated_ranking", "h_index",
     "research_focus_keywords", "key_publications", "grants", "notes"}

ParseGotReply ==
    /\ call.op = "llm_structured_parse"
    /\ call.config.provider \in SupportedProviders
    /\ call.backend.kind = "reply"

IsFallbackOf(profile, s) ==
    LET heuristic == heuristic_extract(s)
    IN  /\ \A f \in ProfileFields \ {"notes"} : profile[f] = heuristic[f]
        /\ HeuristicNote \in Range(profile.notes)
        /\ FallbackNote \in Range(profile.notes)

(* C1: llm_structured_parse never raises: whatever the backend does (a     *)
(* reply that fails to decode, a reply that fails validation, or an error  *)
(* raised by the invocation itself) it returns the heuristic profile with  *)
(* the degradation annotation appended to notes.                           *)
C1_ParseNeverRaises ==
    (/\ call.op = "llm_structured_parse"
     /\ call.config.provider \in SupportedProviders
     /\ \/ call.backend.kind = "error"
        \/ call.backend.content \in InvalidJsonReplies \cup SchemaViolatingReplies)
    => /\ call.raised = "none"
       /\ IsFallbackOf(call.result, text)

(* C2: on a reply that is not JSON, or is JSON violating the CVProfile     *)
(* schema, llm_structured_parse returns the heuristic extraction of the    *)
(* same text in every field but notes, notes holds the heuristic note and  *)
(* the degradation annotation, and both failure cases give the same        *)
(* result.                                                                 *)
C2_FallbackEqualsHeuristic ==
    (ParseGotReply /\ call.backend.content \in InvalidJsonReplies \cup SchemaViolatingReplies)
    => /\ call.raised = "none"
       /\ IsFallbackOf(call.result, text)
       /\ LET other == IF call.backend.content \in InvalidJsonReplies
                       THEN ReplyPubsString ELSE ReplyNotJson
          IN  call.result = llm_structured_parse(text, call.config, ReplyOf(other)).result

C2_Witness ==
    /\ ParseGotReply
    /\ call.backend.content = ReplyPubsString
    /\ call.raised = "none"
    /\ call.result.h_index.some
    /\ call.result.key_publications # <<>>
    /\ Len(call.result.notes) = 2

(* C3: on a reply that matches the extraction schema, the returned profile *)
(* has the reply's value in every field the reply gives and the schema     *)
(* default in every field it omits; nothing of the heuristic extraction    *)
(* and no degradation annotation appears.                                  *)
ExpectedProfile(content) ==
    CASE content = ReplyEmptyObject ->
            [name |-> "Unknown", current_institution |-> "N/A", estimated_ranking |-> "N/A",
             h_index |-> None, research_focus_keywords |-> <<>>, key_publications |-> <<>>,
             grants |-> <<>>, notes |-> <<>>]
      [] content = ReplyPartial ->
            [name |-> "Dr. Lin", current_institution |-> "N/A", estimated_ranking |-> "N/A",
             h_index |-> Some(<<"1","2">>),
             research_focus_keywords |-> << <<"G","e","n","e">> >>,
             key_publications |->
                 <<[title |-> "Atlas", journal |-> "Cell", year |-> Some(2020)],
                   [title |-> "N/A", journal |-> "Nature", year |-> None]>>,
             grants |-> <<[title |-> "ERC", amount |-> None, year |-> None, sponsor |-> None]>>,
             notes |-> <<>>]
      [] content = ReplyFull ->
            [name |-> "Dr. Sato", current_institution |-> "Kyoto",
             estimated_ranking |-> "Top 50", h_index |-> None,
             research_focus_keywords |-> <<>>, key_publications |-> <<>>,
             grants |-> <<[title |-> "JSPS", amount |-> Some("$1M"), year |-> Some(2022),
                           sponsor |-> None]>>,
             notes |-> <<"From LLM">>]

C3_GenerativeResultWins ==
    (ParseGotReply /\ call.backend.content \in SchemaMatchingReplies)
    => /\ call.raised = "none"
       /\ call.result = ExpectedProfile(call.backend.content)
       /\ FallbackNote \notin Range(call.result.notes)
       /\ HeuristicNote \notin Range(call.result.notes)

C3_Witness ==
    /\ ParseGotReply
    /\ call.backend.content = ReplyPartial
    /\ call.result.name = "Dr. Lin"
    /\ call.result.notes = <<>>
    /\ heuristic_extract(text).h_index.some

(* C4: with a provider other than openai and anthropic, get_llm and the    *)
(* three orchestrators fail with the configuration error and the backend   *)
(* has not been invoked.                                                   *)
C4_UnsupportedProviderFailsFirst ==
    (/\ call.op \in {"get_llm", "llm_structured_parse", "generate_match_report",
                     "generate_outreach"}
     /\ call.config.provider \notin SupportedProviders)
    => /\ call.raised = "ValueError"
       /\ call.invocations = 0

C4_Witness ==
    /\ call.op = "generate_outreach"
    /\ call.config.provider = "unsupported-vendor"
    /\ call.backend.kind = "reply"
    /\ call.raised = "ValueError"

(* C5: on a reply that cannot be JSON-decoded, generate_match_report does  *)
(* not raise and returns the degraded report: score "N/A", reasoning the   *)
(* raw reply text, and empty strengths, gaps and recommended_projects.     *)
C5_DegradedReport ==
    (/\ call.op = "generate_match_report"
     /\ call.config.provider \in SupportedProviders
     /\ call.backend.kind = "reply"
     /\ call.backend.content \in InvalidJsonReplies)
    => /\ call.raised = "none"
       /\ call.result.t = "obj"
       /\ DOMAIN call.result.v =
             {"suitability_score", "reasoning", "strengths", "gaps", "recommended_projects"}
       /\ call.result.v.suitability_score = [t |-> "str", v |-> "N/A"]
       /\ call.result.v.reasoning = [t |-> "str", v |-> call.backend.content]
       /\ call.result.v.strengths = [t |-> "list", v |-> <<>>]
       /\ call.result.v.gaps = [t |-> "list", v |-> <<>>]
       /\ call.result.v.recommended_projects = [t |-> "list", v |-> <<>>]

C5_Witness ==
    /\ call.op = "generate_match_report"
    /\ call.config.provider = "anthropic"
    /\ call.backend.kind = "reply"
    /\ call.backend.content = ReplyNotJson
    /\ call.raised = "none"
    /\ call.result.v.reasoning.v = "Not JSON"

(* C6: heuristic_extract never fails and returns a schema-valid profile:   *)
(* the three sentinels, h_index null or a non-empty digit string, at most  *)
(* 10 pairwise distinct keywords, publications and grants without null     *)
(* entries, and the fixed heuristic note.                                  *)
C6_HeuristicSchemaValid ==
    call.op = "heuristic_extract"
    => /\ call.raised = "none"
       /\ DOMAIN call.result = ProfileFields
       /\ call.result.name = "Unknown"
       /\ call.result.current_institution = "N/A"
       /\ call.result.estimated_ranking = "N/A"
       /\ call.result.h_index.some =>
             /\ Len(call.result.h_index.v) >= 1
             /\ Range(call.result.h_index.v) \subseteq DigitSet
       /\ Len(call.result.research_focus_keywords) <= 10
       /\ \A i, j \in DOMAIN call.result.research_focus_keywords :
             i # j => call.result.research_focus_keywords[i]
                        # call.result.research_focus_keywords[j]
       /\ \A i \in DOMAIN call.result.key_publications :
             DOMAIN call.result.key_publications[i] = {"title", "journal", "year"}
       /\ \A i \in DOMAIN call.result.grants :
             DOMAIN call.result.grants[i] = {"title", "amount", "year", "sponsor"}
       /\ call.result.notes = <<HeuristicNote>>

C6_Witness ==
    /\ call.op = "heuristic_extract"
    /\ Cardinality(Range(re_findall_capwords(text))) > 10
    /\ Len(call.result.research_focus_keywords) = 10

(* C7: for each of Nature, Science, Cell and Lancet, heuristic_extract     *)
(* yields exactly one Publication of that journal (title "Highlight from   *)
(* J", no year) when the name occurs in the text in any letter case, and   *)
(* none when it does not; so there are at most 4 publications.             *)
Occurrences(j, s) ==
    {i \in 1..Len(s) :
        /\ i + Len(JournalChars[j]) - 1 <= Len(s)
        /\ \A k \in 1..Len(JournalChars[j]) : Fold(s[i + k - 1]) = Fold(JournalChars[j][k])}

C7_OnePublicationPerJournal ==
    call.op = "heuristic_extract"
    => LET pubs == call.result.key_publications
       IN  /\ Len(pubs) <= 4
           /\ \A j \in {"Nature", "Science", "Cell", "Lancet"} :
                 LET hits == {i \in DOMAIN pubs : pubs[i].journal = j}
                 IN  /\ Cardinality(hits) = IF Occurrences(j, text) # {} THEN 1 ELSE 0
                     /\ \A i \in hits :
                           /\ pubs[i].title = "Highlight from " \o j
                           /\ ~pubs[i].year.some
           /\ \A i \in DOMAIN pubs : pubs[i].journal \in {"Nature", "Science", "Cell", "Lancet"}

C7_Witness ==
    /\ call.op = "heuristic_extract"
    /\ Cardinality(Occurrences("Cell", text)) >= 2
    /\ \E i \in Occurrences("Cell", text) : text[i] = "c"
    /\ Occurrences("Science", text) = {}
    /\ Len(call.result.key_publications) = 2

(* C8: a call of llm_structured_parse, generate_match_report or            *)
(* generate_outreach invokes the backend at most once, also when the       *)
(* backend fails or its reply is unusable and the parse falls back.        *)
C8_AtMostOneInvocation ==
    call.op \in {"llm_structured_parse", "generate_match_report", "generate_outreach"}
    => /\ call.invocations <= 1
       /\ call.config.provider \in SupportedProviders => call.invocations = 1

C8_Witness ==
    /\ ParseGotReply
    /\ call.backend.content = ReplyTruncated
    /\ call.raised = "none"
    /\ FallbackNote \in Range(call.result.notes)
    /\ call.invocations = 1

(* C9: an upstream error of the backend is surfaced by the analysis and    *)
(* outreach handlers' calls (no report or message, the analysis map keeps  *)
(* its content), whereas inside llm_structured_parse it is absorbed by the *)
(* fallback and the parse succeeds.                                        *)
C9_UpstreamErrorPolicy ==
    [][/\ (call'.op \in {"GenerateAnalysis", "GenerateOutreachEmail"}
           /\ call'.backend = UpstreamFailure)
          => (call'.raised = "UpstreamError" /\ analysis' = analysis)
       /\ (call'.op = "ParseCV" /\ call'.backend = UpstreamFailure)
          => (call'.raised = "none" /\ call'.message = "Parsed profile saved")]_vars

(* C10: both session maps start empty; every key of the profiles map is    *)
(* the name of the profile stored under it; keys are never removed from    *)
(* either map; every key of the analysis map is a key of the profiles map, *)
(* so the outreach handler never reports a missing profile.                *)
SessionConsistent ==
    /\ \A n \in DOMAIN profiles : profiles[n].name = n
    /\ DOMAIN analysis \subseteq DOMAIN profiles
    /\ call.op = "GenerateOutreachEmail"
          => call.message # "Profile missing. Please rerun analysis."

C10_SessionInvariant ==
    /\ profiles = <<>> /\ analysis = <<>>
    /\ []SessionConsistent
    /\ [][/\ DOMAIN profiles \subseteq DOMAIN profiles'
          /\ DOMAIN analysis \subseteq DOMAIN analysis']_vars

C10_Witness ==
    /\ {"Unknown", "Alice", "Dr. Lin"} \subseteq DOMAIN profiles
    /\ "Alice" \in DOMAIN analysis
    /\ call.op = "GenerateOutreachEmail"
    /\ call.message = "Draft ready"

====
